---- MODULE Spec2Model ----
(***************************************************************************)
(* Model of app.py: the colour pipeline (analyze_image, filter_colors),    *)
(* the parsing of the exclude string, and the request handler             *)
(* upload_or_update with the upload directory it shares between requests.  *)
(*                                                                         *)
(* Numbers.  A percentage is the exact rational count * 100 / total, kept  *)
(* as a reduced pair <<numerator, denominator>> (the code holds its        *)
(* floating-point value).  A centroid channel is held in tenths: 1276 is   *)
(* 127.6.  A string is a sequence of one-character strings; "^2" stands    *)
(* for the single character U+00B2 (superscript two).                      *)
(***************************************************************************)
EXTENDS Integers, Sequences, FiniteSets, TLC

VARIABLES
    \* the colour pipeline
    stage,            \* "off" | "loaded" | "analyzed" | "filtered" | "refiltered"
    kmeans,           \* the fitted KMeans: cluster_centers_ and Counter(labels_)
    img_pixels,       \* img_array.shape[0] * img_array.shape[1]
    all_colors,       \* the list analyze_image returned
    exclude_list,     \* the exclude list given to filter_colors
    filtered_colors,  \* the list filter_colors returned
    first_result,     \* the list the previous filter_colors call returned
    raised,           \* the exception filter_colors raised, or "none"
    \* the parsing of the exclude string
    parse_pc,         \* "off" | "raw" | "parsed"
    exclude_raw,      \* request.form.get('exclude', '')
    parsed,           \* what lines 212-214 produce: [raised, value]
    \* the request handler
    files,            \* the upload folder: filename -> content
    saves,            \* filename -> number of uploaded_file.save calls on it
    req               \* request id -> the request's inputs, position and response

pipeVars == <<stage, kmeans, img_pixels, all_colors, exclude_list,
              filtered_colors, first_result, raised>>
parseVars == <<parse_pc, exclude_raw, parsed>>
webVars == <<files, saves, req>>
vars == <<pipeVars, parseVars, webVars>>

----------------------------------------------------------------------------
(* Bounds of the model *)

\* most non-empty clusters in a KMeans result
MaxLive == 3
\* longest exclude list handed to filter_colors
MaxExclude == 3
\* longest exclude string handed to the parser
MaxRawLen == 4
\* number of requests in flight
NumReq == 2

(* Program constants *)

\* min(20, len(pixels))
MaxColors == 20
\* if percentage > 0.5, in tenths
ThresholdTenths == 5

----------------------------------------------------------------------------
(* Arithmetic helpers *)

Min(a, b) == IF a < b THEN a ELSE b

RECURSIVE GCD(_, _)
GCD(a, b) == IF b = 0 THEN a ELSE GCD(b, a % b)

\* the rational n / d (d > 0) in lowest terms
Frac(n, d) ==
    LET g == GCD(n, d) IN <<n \div g, d \div g>>

FracLess(p, q) == p[1] * q[2] < q[1] * p[2]

FracAdd(p, q) == Frac(p[1] * q[2] + q[1] * p[2], p[2] * q[2])

RECURSIVE SumSeq(_)
SumSeq(s) == IF s = <<>> THEN 0 ELSE Head(s) + SumSeq(Tail(s))

\* sum(c['count'] for c in colors)
RECURSIVE SumCounts(_)
SumCounts(colors) ==
    IF colors = <<>> THEN 0 ELSE Head(colors).count + SumCounts(Tail(colors))

\* x in l, for a Python list l
InList(x, l) == \E i \in 1..Len(l) : l[i] = x

----------------------------------------------------------------------------
(* analyze_image *)

\* n_colors = min(20, len(pixels))
n_colors(len_pixels) == Min(MaxColors, len_pixels)

\* int(x) on a float: truncation toward zero (x >= 0 here), x in tenths
int(x) == x \div 10

HexDigits ==
    <<"0", "1", "2", "3", "4", "5", "6", "7", "8", "9", "a", "b", "c", "d", "e", "f">>

\* '{:02x}'.format(v) for 0 <= v <= 255
Hex02(v) == <<HexDigits[(v \div 16) + 1], HexDigits[(v % 16) + 1]>>

\* '#{:02x}{:02x}{:02x}'.format(*color_rgb)
hex_color(color_rgb) ==
    <<"#">> \o Hex02(color_rgb[1]) \o Hex02(color_rgb[2]) \o Hex02(color_rgb[3])

DecDigits == <<"0", "1", "2", "3", "4", "5", "6", "7", "8", "9">>

\* str(i) for i >= 0
RECURSIVE str(_)
str(i) ==
    IF i < 10 THEN <<DecDigits[i + 1]>>
    ELSE str(i \div 10) \o <<DecDigits[(i % 10) + 1]>>

\* f'Color {i}'
ColorName(i) == <<"C", "o", "l", "o", "r", " ">> \o str(i)

\* percentage = (count / total_pixels) * 100
Percentage(count, total_pixels) == Frac(count * 100, total_pixels)

\* percentage > 0.5
AboveThreshold(percentage) == percentage[1] * 10 > ThresholdTenths * percentage[2]

\* the dict appended for centroid i (name and number are set after the sort)
ColorEntry(km, i, total_pixels) ==
    LET color_rgb == [k \in 1..3 |-> int(km.centers[i][k])]
    IN  [rgb |-> color_rgb,
         hex |-> hex_color(color_rgb),
         percentage |-> Percentage(km.counts[i], total_pixels),
         count |-> km.counts[i],
         name |-> <<>>,
         number |-> 0]

\* a sort that puts an entry before the entries of equal percentage
RECURSIVE InsertTiesReversed(_, _)
InsertTiesReversed(s, x) ==
    IF s = <<>> THEN <<x>>
    ELSE IF ~FracLess(x.percentage, Head(s).percentage) THEN <<x>> \o s
    ELSE <<Head(s)>> \o InsertTiesReversed(Tail(s), x)

RECURSIVE SortTiesReversed(_)
SortTiesReversed(s) ==
    IF s = <<>> THEN <<>>
    ELSE InsertTiesReversed(SortTiesReversed(SubSeq(s, 1, Len(s) - 1)), s[Len(s)])

\* x goes after every entry whose percentage is >= its own
RECURSIVE InsertDesc(_, _)
InsertDesc(s, x) ==
    IF s = <<>> THEN <<x>>
    ELSE IF FracLess(Head(s).percentage, x.percentage) THEN <<x>> \o s
    ELSE <<Head(s)>> \o InsertDesc(Tail(s), x)

\* all_colors.sort(key=lambda x: x['percentage'], reverse=True): a stable sort,
\* entries of equal percentage keep their order
RECURSIVE SortByPercentageDesc(_)
SortByPercentageDesc(s) ==
    IF s = <<>> THEN <<>>
    ELSE InsertDesc(SortByPercentageDesc(SubSeq(s, 1, Len(s) - 1)), s[Len(s)])

\* lines 60-88, from the fitted KMeans on
analyze_image(km) ==
    LET total_pixels == SumSeq(km.counts)
        candidates == [i \in 1..Len(km.counts) |-> ColorEntry(km, i, total_pixels)]
        appended == SelectSeq(candidates, LAMBDA c : AboveThreshold(c.percentage))
        sorted == SortByPercentageDesc(appended)
    IN  [i \in 1..Len(sorted) |->
            [sorted[i] EXCEPT !.name = ColorName(i), !.number = i]]

----------------------------------------------------------------------------
(* filter_colors *)

\* a loop that leaves the percentages as they were
RenormalizeStale(colors) == [raised |-> "none", value |-> colors]

\* a loop that divides once, before looking at the entries
RenormalizeEager(colors) ==
    LET total_after == SumCounts(colors)
    IN  IF total_after = 0
        THEN [raised |-> "ZeroDivisionError", value |-> <<>>]
        ELSE [raised |-> "none",
              value |-> [i \in 1..Len(colors) |->
                  [colors[i] EXCEPT
                      !.percentage = Frac(colors[i].count * 100, total_after)]]]

\* total_after = sum(counts); for c in colors: c['percentage'] = c['count'] / total_after * 100
\* The division runs once per entry: with no entry there is no division.
Renormalize(colors) ==
    LET total_after == SumCounts(colors)
    IN  IF colors # <<>> /\ total_after = 0
        THEN [raised |-> "ZeroDivisionError", value |-> <<>>]
        ELSE [raised |-> "none",
              value |-> [i \in 1..Len(colors) |->
                  [colors[i] EXCEPT
                      !.percentage = Frac(colors[i].count * 100, total_after)]]]

\* a filter that tests the position in the list (from 0) instead of the number
KeptByIndex(colors, exclude) ==
    LET keep == {i \in 1..Len(colors) : ~InList(i - 1, exclude)}
        RECURSIVE Take(_)
        Take(i) == IF i > Len(colors) THEN <<>>
                   ELSE (IF i \in keep THEN <<colors[i]>> ELSE <<>>) \o Take(i + 1)
    IN  Take(1)

\* a filter that renumbers what it keeps
KeptRenumbered(colors, exclude) ==
    LET kept == SelectSeq(colors, LAMBDA color : ~InList(color.number, exclude))
    IN  [i \in 1..Len(kept) |-> [kept[i] EXCEPT !.number = i, !.name = ColorName(i)]]

\* for color in all_colors: if color['number'] not in exclude_list: filtered.append(color.copy())
Kept(colors, exclude) ==
    SelectSeq(colors, LAMBDA color : ~InList(color.number, exclude))

\* a filter that divides by the total_pixels it is given
filter_colors_by_total(colors, total_pixels, exclude) ==
    LET filtered == IF exclude = <<>> THEN colors ELSE Kept(colors, exclude)
    IN  [raised |-> "none",
         value |-> [i \in 1..Len(filtered) |->
             [filtered[i] EXCEPT
                 !.percentage = Frac(filtered[i].count * 100, total_pixels)]]]

\* filter_colors(all_colors, total_pixels, exclude_list); total_pixels is not used
filter_colors(colors, total_pixels, exclude) ==
    IF exclude = <<>>
    THEN Renormalize(colors)
    ELSE Renormalize(Kept(colors, exclude))

----------------------------------------------------------------------------
(* The colour pipeline: one image analysed, then filtered *)

\* pixel counts a cluster of the resized image can hold
CountVals == {1, 2, 3, 300}

\* centroids KMeans can return (channels in tenths)
CenterVals ==
    << <<2550, 0, 0>>, <<1276, 160, 2549>>, <<4, 1004, 96>> >>

\* kmeans.fit(pixels) where the first Len(live) clusters hold live[i] pixels each:
\* KMeans makes n_colors clusters, the others are left empty
KMeansFit(live, shift) ==
    LET len_pixels == SumSeq(live)
        n == n_colors(len_pixels)
    IN  [centers |-> [i \in 1..n |-> CenterVals[((i + shift) % Len(CenterVals)) + 1]],
         counts |-> [i \in 1..n |-> IF i <= Len(live) THEN live[i] ELSE 0]]

KMeansResults ==
    {KMeansFit(live, shift) :
        live \in UNION {[1..m -> CountVals] : m \in 1..MaxLive},
        shift \in {0, 1}}

\* the exclude lists handed to filter_colors
ExcludeLists ==
    UNION {[1..m -> 1..(MaxLive + 1)] : m \in 0..MaxExclude}

NoKMeans == [centers |-> <<>>, counts |-> <<>>]

PipeOff ==
    /\ stage = "off"
    /\ kmeans = NoKMeans
    /\ img_pixels = 0
    /\ all_colors = <<>>
    /\ exclude_list = <<>>
    /\ filtered_colors = <<>>
    /\ first_result = <<>>
    /\ raised = "none"

\* the image is open and KMeans is fitted (lines 33-63); the display image is the
\* resized one or a larger one
PipeInit ==
    /\ stage = "loaded"
    /\ kmeans \in KMeansResults
    /\ img_pixels \in {SumSeq(kmeans.counts), 4 * SumSeq(kmeans.counts)}
    /\ all_colors = <<>>
    /\ exclude_list = <<>>
    /\ filtered_colors = <<>>
    /\ first_result = <<>>
    /\ raised = "none"

\* img_array, all_colors = analyze_image(filepath)
AnalyzeImage ==
    /\ stage = "loaded"
    /\ all_colors' = analyze_image(kmeans)
    /\ stage' = "analyzed"
    /\ UNCHANGED <<kmeans, img_pixels, exclude_list, filtered_colors, first_result, raised>>
    /\ UNCHANGED <<parseVars, webVars>>

\* filtered_colors = filter_colors(all_colors, total_pixels, exclude_list)
\* With an empty exclude list the entries of all_colors are written in place and
\* all_colors itself is returned.
FilterColors ==
    /\ stage = "analyzed"
    /\ \E ex \in ExcludeLists :
        LET r == filter_colors(all_colors, img_pixels, ex)
        IN  /\ exclude_list' = ex
            /\ raised' = r.raised
            /\ filtered_colors' = r.value
            /\ all_colors' = IF ex = <<>> /\ r.raised = "none" THEN r.value ELSE all_colors
    /\ stage' = "filtered"
    /\ UNCHANGED <<kmeans, img_pixels, first_result>>
    /\ UNCHANGED <<parseVars, webVars>>

\* filter_colors applied to its own result, with the same exclude list
FilterAgain ==
    /\ stage = "filtered"
    /\ raised = "none"
    /\ LET r == filter_colors(filtered_colors, img_pixels, exclude_list)
       IN  /\ raised' = r.raised
           /\ filtered_colors' = r.value
    /\ first_result' = filtered_colors
    /\ stage' = "refiltered"
    /\ UNCHANGED <<kmeans, img_pixels, all_colors, exclude_list>>
    /\ UNCHANGED <<parseVars, webVars>>

----------------------------------------------------------------------------
(* Parsing the exclude string (lines 211-214) *)

\* the characters of the modelled strings
Chars == {"1", "2", " ", ",", "a", "^2"}

\* str.isspace
Whitespace == {" "}

\* the characters str.isdigit accepts: the decimal digits and the other Unicode
\* digits, such as U+00B2
DigitChars == {"1", "2", "^2"}

\* the characters int() reads as a decimal digit
DecimalChars == {"1", "2"}

DigitValue(c) == IF c = "1" THEN 1 ELSE 2

\* s.split(',')
RECURSIVE Split(_)
Split(s) ==
    IF \A i \in 1..Len(s) : s[i] # ","
    THEN <<s>>
    ELSE LET k == CHOOSE i \in 1..Len(s) :
                      s[i] = "," /\ \A j \in 1..(i - 1) : s[j] # ","
         IN  <<SubSeq(s, 1, k - 1)>> \o Split(SubSeq(s, k + 1, Len(s)))

\* s.strip()
RECURSIVE Strip(_)
Strip(s) ==
    IF s = <<>> THEN s
    ELSE IF Head(s) \in Whitespace THEN Strip(Tail(s))
    ELSE IF s[Len(s)] \in Whitespace THEN Strip(SubSeq(s, 1, Len(s) - 1))
    ELSE s

\* s.isdigit()
IsDigit(s) == s # <<>> /\ \A i \in 1..Len(s) : s[i] \in DigitChars

\* whether int(s) returns: surrounding whitespace is allowed, the rest must be
\* decimal digits
IntAccepts(s) ==
    LET t == Strip(s) IN t # <<>> /\ \A i \in 1..Len(t) : t[i] \in DecimalChars

RECURSIVE DecimalValue(_)
DecimalValue(t) ==
    IF t = <<>> THEN 0
    ELSE 10 * DecimalValue(SubSeq(t, 1, Len(t) - 1)) + DigitValue(t[Len(t)])

\* int(s), where IntAccepts(s)
IntValue(s) == DecimalValue(Strip(s))

\* exclude_list = [];  if exclude_raw.strip():
\*     exclude_list = [int(x) for x in exclude_raw.split(',') if x.strip().isdigit()]
parse_exclude(raw) ==
    IF Strip(raw) = <<>>
    THEN [raised |-> "none", value |-> <<>>]
    ELSE LET tokens == SelectSeq(Split(raw), LAMBDA x : IsDigit(Strip(x)))
         IN  IF \E i \in 1..Len(tokens) : ~IntAccepts(tokens[i])
             THEN [raised |-> "ValueError", value |-> <<>>]
             ELSE [raised |-> "none",
                   value |-> [i \in 1..Len(tokens) |-> IntValue(tokens[i])]]

\* the strings request.form.get('exclude', '') can hold
RawStrings == UNION {[1..m -> Chars] : m \in 0..MaxRawLen}

NotParsed == [raised |-> "none", value |-> <<>>]

ParseOff ==
    /\ parse_pc = "off"
    /\ exclude_raw = <<>>
    /\ parsed = NotParsed

ParseInit ==
    /\ parse_pc = "raw"
    /\ exclude_raw \in RawStrings
    /\ parsed = NotParsed

ParseExclude ==
    /\ parse_pc = "raw"
    /\ parsed' = parse_exclude(exclude_raw)
    /\ parse_pc' = "parsed"
    /\ UNCHANGED exclude_raw
    /\ UNCHANGED <<pipeVars, webVars>>

----------------------------------------------------------------------------
(* The request handler upload_or_update and the upload folder *)

Requests == 1..NumReq

\* the filenames a request can carry; "" is an empty or missing filename
Filenames == {"pic.png", "no_dir/pic.png", "gone.png"}

\* the bytes an upload can carry; "notimage" is no decodable image
Images == {"imgA", "imgB", "notimage"}

\* the exclude strings a request can carry
WebExcludes == {<<>>, <<"2">>, <<"1", ",", "2">>, <<"^2">>}

\* os.path.join(UPLOAD_FOLDER, filename) lies in a directory that exists: only
\* UPLOAD_FOLDER itself is ever created (lines 18-20)
DirExists(filename) == filename # "no_dir/pic.png"

\* Image.open(...) and np.array(img) succeed on the content
Decodable(content) == content \in {"imgA", "imgB"}

\* the KMeans fitted on each image
KMeansOf(image) ==
    IF image = "imgA" THEN KMeansFit(<<2, 1>>, 0) ELSE KMeansFit(<<1, 2, 1>>, 1)

NoRequest ==
    [pc |-> "new", method |-> "none", upload_name |-> "", upload_bytes |-> "none",
     form_filename |-> "", exclude_raw |-> <<>>, exclude_list |-> <<>>,
     page |-> "none", error |-> "none", colors |-> <<>>, analyzed |-> "none"]

WebOff ==
    /\ files = [f \in Filenames |-> "absent"]
    /\ saves = [f \in Filenames |-> 0]
    /\ req = [r \in {} |-> NoRequest]

WebInit ==
    /\ files = [f \in Filenames |-> "absent"]
    /\ saves = [f \in Filenames |-> 0]
    /\ req = [r \in Requests |-> NoRequest]

\* return render_template(page, ...)
Respond(r, page, error, colors, analyzed) ==
    req' = [req EXCEPT ![r].pc = "done", ![r].page = page, ![r].error = error,
                       ![r].colors = colors, ![r].analyzed = analyzed]

\* an exception leaves upload_or_update: no page is rendered by the handler
Escape(r, exception) ==
    req' = [req EXCEPT ![r].pc = "done", ![r].page = "unhandled", ![r].error = exception]

\* lines 162-163: GET shows the upload page
Get(r) ==
    /\ req[r].pc = "new"
    /\ req' = [req EXCEPT ![r].pc = "done", ![r].method = "GET", ![r].page = "index.html"]
    /\ UNCHANGED <<files, saves>>
    /\ UNCHANGED <<pipeVars, parseVars>>

\* lines 171-176: a POST with a file whose filename is not empty
ReceiveUpload(r) ==
    /\ req[r].pc = "new"
    /\ \E name \in {"pic.png", "no_dir/pic.png"}, bytes \in Images :
        req' = [req EXCEPT ![r].pc = "save", ![r].method = "POST",
                           ![r].upload_name = name, ![r].upload_bytes = bytes]
    /\ UNCHANGED <<files, saves>>
    /\ UNCHANGED <<pipeVars, parseVars>>

\* lines 171-174, 200-205: a POST with no file (or an empty filename)
ReceiveUpdate(r) ==
    /\ req[r].pc = "new"
    /\ \E filename \in {"", "pic.png", "gone.png"}, raw \in WebExcludes :
        IF filename = ""
        THEN req' = [req EXCEPT ![r].pc = "done", ![r].method = "POST",
                                ![r].exclude_raw = raw,
                                ![r].page = "index.html", ![r].error = "Missing image reference"]
        ELSE req' = [req EXCEPT ![r].pc = "check_file", ![r].method = "POST",
                                ![r].form_filename = filename, ![r].exclude_raw = raw]
    /\ UNCHANGED <<files, saves>>
    /\ UNCHANGED <<pipeVars, parseVars>>

\* line 177, uploaded_file.save(filepath), first half: open(filepath, 'wb')
\* truncates the file, or raises when the directory does not exist
SaveOpen(r) ==
    /\ req[r].pc = "save"
    /\ IF DirExists(req[r].upload_name)
       THEN /\ files' = [files EXCEPT ![req[r].upload_name] = "partial"]
            /\ saves' = [saves EXCEPT ![req[r].upload_name] = @ + 1]
            /\ req' = [req EXCEPT ![r].pc = "saving"]
       ELSE /\ Escape(r, "FileNotFoundError")
            /\ UNCHANGED <<files, saves>>
    /\ UNCHANGED <<pipeVars, parseVars>>

\* line 177, second half: the bytes are written and the file is closed
SaveWrite(r) ==
    /\ req[r].pc = "saving"
    /\ files' = [files EXCEPT ![req[r].upload_name] = req[r].upload_bytes]
    /\ req' = [req EXCEPT ![r].pc = "analyze"]
    /\ UNCHANGED saves
    /\ UNCHANGED <<pipeVars, parseVars>>

\* lines 207-214: the file must exist; then the exclude string is parsed, outside
\* any try block
CheckFileAndParse(r) ==
    /\ req[r].pc = "check_file"
    /\ LET p == parse_exclude(req[r].exclude_raw)
       IN  IF files[req[r].form_filename] = "absent"
           THEN Respond(r, "index.html", "Image file not found", <<>>, "none")
           ELSE IF p.raised # "none"
           THEN Escape(r, p.raised)
           ELSE req' = [req EXCEPT ![r].pc = "analyze", ![r].exclude_list = p.value]
    /\ UNCHANGED <<files, saves>>
    /\ UNCHANGED <<pipeVars, parseVars>>

\* the try blocks, lines 179-197 and 217-234: analyze_image reads the stored file,
\* then filter_colors and create_plot; every exception is caught
Analyze(r) ==
    /\ req[r].pc = "analyze"
    /\ LET filename == IF req[r].upload_name # "" THEN req[r].upload_name
                       ELSE req[r].form_filename
           content == files[filename]
           all == analyze_image(KMeansOf(content))
           f == filter_colors(all, SumSeq(KMeansOf(content).counts), req[r].exclude_list)
       IN  IF ~Decodable(content)
           THEN Respond(r, "index.html", "Error: cannot identify image file", <<>>, "none")
           ELSE IF f.raised # "none"
           THEN Respond(r, "index.html", "Error: division by zero", <<>>, content)
           ELSE \E plot_ok \in BOOLEAN :
                   IF plot_ok
                   THEN Respond(r, "result.html", "none", f.value, content)
                   ELSE Respond(r, "index.html", "Error: create_plot", <<>>, content)
    /\ UNCHANGED <<files, saves>>
    /\ UNCHANGED <<pipeVars, parseVars>>

----------------------------------------------------------------------------
(* Specifications *)

\* one image analysed and filtered
Init == PipeInit /\ ParseOff /\ WebOff

Next == AnalyzeImage \/ FilterColors \/ FilterAgain

Spec == Init /\ [][Next]_vars

\* one exclude string parsed
InitParse == PipeOff /\ ParseInit /\ WebOff

NextParse == ParseExclude

SpecParse == InitParse /\ [][NextParse]_vars

\* NumReq requests handled concurrently over one upload folder
InitWeb == PipeOff /\ ParseOff /\ WebInit

NextWeb ==
    \E r \in Requests :
        \/ Get(r)
        \/ ReceiveUpload(r)
        \/ ReceiveUpdate(r)
        \/ SaveOpen(r)
        \/ SaveWrite(r)
        \/ CheckFileAndParse(r)
        \/ Analyze(r)

SpecWeb == InitWeb /\ [][NextWeb]_vars

----------------------------------------------------------------------------
(* What the claims speak of, in terms of the fitted KMeans *)

\* total pixel count of the cluster grid
TotalPixels == SumSeq(kmeans.counts)

\* the centroids whose share of the cluster grid is above 0.5 percent
Survivors ==
    {i \in 1..Len(kmeans.counts) : 1000 * kmeans.counts[i] > ThresholdTenths * TotalPixels}

\* the non-empty clusters the threshold drops
Dropped ==
    {i \in 1..Len(kmeans.counts) : kmeans.counts[i] > 0 /\ i \notin Survivors}

\* 1-based rank of centroid i: larger share first, equal shares by centroid index
Rank(i) ==
    1 + Cardinality({j \in Survivors :
            \/ kmeans.counts[j] > kmeans.counts[i]
            \/ kmeans.counts[j] = kmeans.counts[i] /\ j < i})

\* a centroid channel (in tenths) rounded to the nearest integer
RoundNearest(x) == (x + 5) \div 10

RECURSIVE SumPercentages(_)
SumPercentages(colors) ==
    IF colors = <<>> THEN <<0, 1>>
    ELSE FracAdd(Head(colors).percentage, SumPercentages(Tail(colors)))

Numbers(colors) == {colors[i].number : i \in 1..Len(colors)}

ExcludeSet == {exclude_list[i] : i \in 1..Len(exclude_list)}

AllExcluded == Numbers(all_colors) \subseteq ExcludeSet

----------------------------------------------------------------------------
(* The claims *)

\* C1: whenever filter_colors keeps at least one entry, each kept entry's
\* percentage is count / sum(kept counts) * 100 and the kept percentages sum to
\* 100, however many entries were excluded.
C1_KeptPercentagesSumTo100 ==
    (stage \in {"filtered", "refiltered"} /\ filtered_colors # <<>>) =>
        /\ \A i \in 1..Len(filtered_colors) :
              filtered_colors[i].percentage =
                  Frac(filtered_colors[i].count * 100, SumCounts(filtered_colors))
        /\ SumPercentages(filtered_colors) = <<100, 1>>

\* C1 witness: a filter call that excluded an entry and kept at least two
C1_Witness ==
    /\ stage = "filtered"
    /\ Len(filtered_colors) >= 2
    /\ Len(filtered_colors) < Len(all_colors)

\* C2: filter_colors removes exactly the entries whose number is in the exclude
\* list; every other entry keeps its number, name and count, and the kept
\* entries stay in their order.
C2_ExactRemovalStableNumbers ==
    stage = "filtered" =>
        /\ Numbers(filtered_colors) = Numbers(all_colors) \ ExcludeSet
        /\ Len(filtered_colors) = Cardinality(Numbers(all_colors) \ ExcludeSet)
        /\ \A j \in 1..Len(filtered_colors) :
              \E i \in 1..Len(all_colors) :
                  /\ all_colors[i].number = filtered_colors[j].number
                  /\ all_colors[i].name = filtered_colors[j].name
                  /\ all_colors[i].count = filtered_colors[j].count
                  /\ all_colors[i].rgb = filtered_colors[j].rgb
                  /\ all_colors[i].hex = filtered_colors[j].hex
                  /\ \A k \in (j + 1)..Len(filtered_colors) :
                        \E l \in (i + 1)..Len(all_colors) :
                            all_colors[l].number = filtered_colors[k].number

\* C2 witness: entry 2 of a three-entry palette is excluded, 1 and 3 are kept
C2_Witness ==
    /\ stage = "filtered"
    /\ Len(all_colors) = 3
    /\ ExcludeSet = {2}
    /\ Numbers(filtered_colors) = {1, 3}

\* C3: when the exclude list removes every entry of the palette, filter_colors
\* returns the empty list and raises no division fault.
C3_AllExcludedNoDivisionFault ==
    (stage = "filtered" /\ AllExcluded) =>
        /\ raised = "none"
        /\ filtered_colors = <<>>

\* C3 witness: every entry of a palette of at least two entries is excluded
C3_Witness ==
    /\ stage = "filtered"
    /\ Len(all_colors) >= 2
    /\ AllExcluded

\* C6: the palette analyze_image returns holds the surviving centroids by
\* percentage descending, equal percentages by centroid index ascending, and the
\* entry at place n carries number n and name "Color n".
C6_RankedPalette ==
    stage = "analyzed" =>
        /\ Len(all_colors) = Cardinality(Survivors)
        /\ \A i \in Survivors :
              LET e == all_colors[Rank(i)]
              IN  /\ e.count = kmeans.counts[i]
                  /\ e.percentage = Frac(kmeans.counts[i] * 100, TotalPixels)
                  /\ e.rgb = [k \in 1..3 |-> kmeans.centers[i][k] \div 10]
                  /\ e.number = Rank(i)
                  /\ e.name = <<"C", "o", "l", "o", "r", " ", DecDigits[Rank(i) + 1]>>

\* C6 witness: three surviving centroids, two of them with equal shares and
\* different colours
C6_Witness ==
    /\ stage = "analyzed"
    /\ Len(all_colors) >= 3
    /\ \E i, j \in Survivors :
          /\ i < j
          /\ kmeans.counts[i] = kmeans.counts[j]
          /\ kmeans.centers[i] # kmeans.centers[j]
    /\ \E i, j \in Survivors : kmeans.counts[i] < kmeans.counts[j] /\ i < j

\* C7, as stated: with an empty exclude list filter_colors returns every entry,
\* its denominator equals the total pixel count of the cluster grid, and each
\* percentage stays the Ranker's count / totalPixels * 100.
C7_DenominatorIsOriginalTotal ==
    (stage = "filtered" /\ exclude_list = <<>>) =>
        /\ Len(filtered_colors) = Cardinality(Survivors)
        /\ SumCounts(filtered_colors) = TotalPixels
        /\ \A i \in 1..Len(filtered_colors) :
              filtered_colors[i].percentage =
                  Frac(filtered_colors[i].count * 100, TotalPixels)

\* C7, amended: with an empty exclude list filter_colors returns every entry and
\* divides by the sum of count over the palette it was given; that sum equals
\* the total pixel count of the cluster grid exactly when the threshold dropped
\* no non-empty cluster, and only then do the percentages stay the Ranker's.
C7_DenominatorIsPaletteSum ==
    (stage = "filtered" /\ exclude_list = <<>>) =>
        /\ Len(filtered_colors) = Cardinality(Survivors)
        /\ \A i \in Survivors :
              /\ filtered_colors[Rank(i)].number = Rank(i)
              /\ filtered_colors[Rank(i)].count = kmeans.counts[i]
        /\ \A i \in 1..Len(filtered_colors) :
              filtered_colors[i].percentage =
                  Frac(filtered_colors[i].count * 100, SumCounts(filtered_colors))
        /\ (Dropped = {}) <=> (SumCounts(filtered_colors) = TotalPixels)
        /\ (Dropped = {}) <=>
              \A i \in 1..Len(filtered_colors) :
                  filtered_colors[i].percentage =
                      Frac(filtered_colors[i].count * 100, TotalPixels)

\* C7 witness: nothing is excluded from a palette of at least two entries that
\* the threshold shortened
C7_Witness ==
    /\ stage = "filtered"
    /\ exclude_list = <<>>
    /\ Dropped # {}
    /\ Len(filtered_colors) >= 2

\* C8: every palette entry's rgb is its centroid with each channel rounded to
\* the nearest integer, and its hex is that rgb as #rrggbb in lowercase.
C8_RgbRoundedToNearest ==
    stage = "analyzed" =>
        \A i \in Survivors :
            LET e == all_colors[Rank(i)]
                rounded == [k \in 1..3 |-> RoundNearest(kmeans.centers[i][k])]
            IN  /\ e.rgb = rounded
                /\ e.hex = hex_color(rounded)

\* C9: filter_colors applied to its own result with the same exclude list
\* returns that result again, entries and percentages alike, although the
\* percentages it is handed are those of the first call.
C9_FilterIdempotent ==
    stage = "refiltered" =>
        /\ raised = "none"
        /\ filtered_colors = first_result

\* C9 witness: the second call ran on a result of at least two entries whose
\* percentages the first call had changed
C9_Witness ==
    /\ stage = "refiltered"
    /\ Len(first_result) >= 2
    /\ Len(first_result) < Len(all_colors)
    /\ \E i \in 1..Len(first_result) :
          \E j \in 1..Len(all_colors) :
              /\ all_colors[j].number = first_result[i].number
              /\ all_colors[j].percentage # first_result[i].percentage

\* C5: parsing drops every empty or non-numeric token without raising and
\* returns the integers of the other tokens, in order.
C5_ParseDropsBadTokensSilently ==
    parse_pc = "parsed" =>
        LET numeric == SelectSeq(Split(exclude_raw),
                           LAMBDA x : /\ Strip(x) # <<>>
                                      /\ \A i \in 1..Len(Strip(x)) :
                                            Strip(x)[i] \in DecimalChars)
        IN  /\ parsed.raised = "none"
            /\ parsed.value = [i \in 1..Len(numeric) |-> DecimalValue(Strip(numeric[i]))]

\* C4: every POST ends in the result page, or in the entry page with an error
\* message; no exception leaves the handler.
C4_EveryPostEndsInAPage ==
    \A r \in DOMAIN req :
        (req[r].pc = "done" /\ req[r].method = "POST") =>
            \/ req[r].page = "result.html"
            \/ req[r].page = "index.html" /\ req[r].error # "none"

\* C10: the stored file of a filename is written once, at upload, and never
\* again.
C10_FileWrittenOnce ==
    \A f \in DOMAIN saves : saves[f] <= 1

====
